---------------------------- MODULE Spec2Model ----------------------------
(***************************************************************************)
(* A model of WordPressQueryFanOutAnalyzer (src/app.py): the content graph *)
(* built from the site's posts, pages, categories and tags, the depth      *)
(* score, the orphan / hub classification, the greedy clustering, and the  *)
(* recommendations made from them and from the qualitative analysis.       *)
(*                                                                         *)
(* Text.  A text is a sequence of runs [kind, ref, n]: n consecutive       *)
(* items of one kind, separated by whitespace.  The kinds are              *)
(*   "word"     a plain word that gives the vectorizer a term              *)
(*   "stop"     a plain word that gives none: an English stop word or a    *)
(*              word of one character                                      *)
(*   "url"      a site-prefixed URL written in the text, pointing at ref   *)
(*   "md_h2"    the token ##          "md_h3"   the token ###              *)
(*   "dash"     the token -           "gallery" the token [gallery]        *)
(*   "schema"   the token @type                                            *)
(*   "tag_h2"   <h2>   "tag_h3" <h3>   "tag_img" <img>   "tag_ul" <ul>     *)
(*   "tag_a"    <a href="ref">        "tag_end" a closing tag              *)
(* The "tag_" kinds are markup: one <...> group each.  An item is one      *)
(* whitespace-separated token, but for "tag_a", which holds one space and  *)
(* so is two tokens.                                                       *)
(*                                                                         *)
(* Numbers.  Depth scores and similarities are kept in tenths (0.3 is 3).  *)
(* The score is a sum of the literals 0.1, 0.2, 0.3 in a fixed order; over *)
(* all combinations of contributions the IEEE double sum compares with     *)
(* 0.0, 0.4, 0.7 and 1.0 exactly as the sum in tenths compares with 0, 4,  *)
(* 7 and 10, so the tenths decide every comparison made in the program.    *)
(***************************************************************************)
EXTENDS Integers, Sequences, FiniteSets, TLC

VARIABLES site, content, content_graph, depth_analysis, pc, error, runs, arg, ret,
          claude, query_patterns, recommendations, page

vars == <<site, content, content_graph, depth_analysis, pc, error, runs, arg, ret,
          claude, query_patterns, recommendations, page>>

(***************************************************************************)
(* Bounds of the explored inputs.                                          *)
(***************************************************************************)
MaxPosts == 2
MaxCatId == 2
MaxDocs == 3
MaxRuns == 2

TagIds == {1}

(***************************************************************************)
(* Constants of the program.                                               *)
(***************************************************************************)
\* The batch size of a request for posts, pages, categories or tags.
per_page == 100

\* TfidfVectorizer(max_features=1000, ...): the vocabulary keeps at most this
\* many terms, those of the highest count in the corpus.
max_features == 1000

(***************************************************************************)
(* Generic helpers.                                                        *)
(***************************************************************************)
Min(a, b) == IF a < b THEN a ELSE b

RECURSIVE SumSeq(_)
SumSeq(s) == IF s = <<>> THEN 0 ELSE Head(s) + SumSeq(Tail(s))

RECURSIVE SortedSeq(_)
SortedSeq(S) ==
    IF S = {} THEN <<>>
    ELSE LET m == CHOOSE x \in S : \A y \in S : x <= y
         IN  <<m>> \o SortedSeq(S \ {m})

Range(s) == { s[i] : i \in 1..Len(s) }

(***************************************************************************)
(* Texts.                                                                  *)
(***************************************************************************)
NoRef == <<"none", 0>>
GoneRef == <<"gone", 0>>

Run(kind, n) == [kind |-> kind, ref |-> NoRef, n |-> n]
Url(ref) == [kind |-> "url", ref |-> ref, n |-> 1]
Anchor(ref) == [kind |-> "tag_a", ref |-> ref, n |-> 1]

MarkupKinds == {"tag_h2", "tag_h3", "tag_img", "tag_ul", "tag_a", "tag_end"}

\* The text without its runs of length zero (a run of no tokens is no text).
Normalise(text) == SelectSeq(text, LAMBDA r : r.n > 0)

\* clean_html: every <...> group is deleted, whitespace runs collapse to one
\* space and the ends are trimmed, so exactly the non-markup tokens remain.
clean_html(html) == SelectSeq(Normalise(html), LAMBDA r : r.kind \notin MarkupKinds)

\* The whitespace-separated tokens of a run: <a href="ref"> is two tokens.
Tokens(r) == IF r.kind = "tag_a" THEN 2 * r.n ELSE r.n

\* len(text.split()): the number of whitespace-separated tokens.
WordCount(text) == SumSeq([i \in 1..Len(text) |-> Tokens(text[i])])

\* The number of items of the given kinds.
CountKinds(text, kinds) ==
    SumSeq([i \in 1..Len(text) |-> IF text[i].kind \in kinds THEN text[i].n ELSE 0])

\* The number of items of the given kinds that are followed by a space, that
\* is, all of them but one standing at the very end of the text.
CountFollowedBySpace(text, kinds) ==
    LET t == Normalise(text)
        all == CountKinds(t, kinds)
    IN  IF t # <<>> /\ t[Len(t)].kind \in kinds THEN all - 1 ELSE all

(***************************************************************************)
(* calculate_content_depth, in tenths.                                     *)
(***************************************************************************)
\* The tiers with their boundaries taken in: 500 words already count.
WordCountFactorInclusive(word_count) ==
    IF word_count >= 2000 THEN 3
    ELSE IF word_count >= 1000 THEN 2
    ELSE IF word_count >= 500 THEN 1
    ELSE 0

WordCountFactor(word_count) ==
    IF word_count > 2000 THEN 3
    ELSE IF word_count > 1000 THEN 2
    ELSE IF word_count > 500 THEN 1
    ELSE 0

\* content.count('<h2') + content.count('## '); '### ' contains '## '.
H2Count(c) == CountKinds(c, {"tag_h2"}) + CountFollowedBySpace(c, {"md_h2", "md_h3"})

\* content.count('<h3') + content.count('### ')
H3Count(c) == CountKinds(c, {"tag_h3"}) + CountFollowedBySpace(c, {"md_h3"})

HasMedia(c) == CountKinds(c, {"tag_img", "gallery"}) > 0

HasList(c) == CountKinds(c, {"tag_ul"}) > 0 \/ CountFollowedBySpace(c, {"dash"}) > 0

HasSchema(c) == CountKinds(c, {"schema"}) > 0

calculate_content_depth(c) ==
    LET score == WordCountFactor(WordCount(c))
                 + (IF H2Count(c) > 3 THEN 2 ELSE 0)
                 + (IF H3Count(c) > 5 THEN 1 ELSE 0)
                 + (IF HasMedia(c) THEN 1 ELSE 0)
                 + (IF HasList(c) THEN 1 ELSE 0)
                 + (IF HasSchema(c) THEN 2 ELSE 0)
    IN  Min(score, 10)


(***************************************************************************)
(* The content graph, an nx.DiGraph: the node keys in insertion order, the *)
(* attributes of each node, and at most one edge per ordered pair of keys. *)
(* Keys: <<"post", id>> is the integer key id, <<"page", id>> the key      *)
(* page_id, <<"cat", id>> the key cat_id and <<"tag", id>> the key tag_id. *)
(* A node of type "missing" is a node without attributes (no 'type' key):  *)
(* the node add_edge creates for an endpoint that is not in the graph yet. *)
(***************************************************************************)
EmptyGraph == [order |-> <<>>, data |-> <<>>, edges |-> {}]

Nodes(G) == Range(G.order)

MissingAttrs == [type |-> "missing", url |-> NoRef, content |-> <<>>,
                 categories |-> <<>>, tags |-> <<>>]

\* DiGraph.add_node: a new key is appended; an existing key keeps its place
\* and is updated with the attributes given (every caller gives all the
\* attributes a node of its kind has here).
add_node(G, key, attrs) ==
    [G EXCEPT !.order = IF key \in Nodes(G) THEN G.order ELSE Append(G.order, key),
              !.data = (key :> attrs) @@ G.data]

\* DiGraph.add_edge: an endpoint that is no node yet becomes a node without
\* attributes; an edge already between the pair takes the type given.
add_edge(G, s, t, type) ==
    LET G1 == IF s \in Nodes(G) THEN G ELSE add_node(G, s, MissingAttrs)
        G2 == IF t \in Nodes(G1) THEN G1 ELSE add_node(G1, t, MissingAttrs)
    IN  [G2 EXCEPT !.edges = { e \in G2.edges : ~(e.src = s /\ e.dst = t) }
                              \cup {[src |-> s, dst |-> t, type |-> type]}]

out_degree(G, k) == Cardinality({ e \in G.edges : e.src = k })

in_degree(G, k) == Cardinality({ e \in G.edges : e.dst = k })

PostAttrs(post) ==
    [type |-> "post", url |-> post.link, content |-> clean_html(post.html),
     categories |-> post.categories, tags |-> post.tags]

PageAttrs(record) ==
    [type |-> "page", url |-> record.link, content |-> clean_html(record.html),
     categories |-> <<>>, tags |-> <<>>]

TermAttrs(type) ==
    [type |-> type, url |-> NoRef, content |-> <<>>, categories |-> <<>>, tags |-> <<>>]

RECURSIVE AddPosts(_, _)
AddPosts(G, posts) ==
    IF posts = <<>> THEN G
    ELSE AddPosts(add_node(G, <<"post", Head(posts).id>>, PostAttrs(Head(posts))), Tail(posts))

RECURSIVE AddPages(_, _)
AddPages(G, pages) ==
    IF pages = <<>> THEN G
    ELSE AddPages(add_node(G, <<"page", Head(pages).id>>, PageAttrs(Head(pages))), Tail(pages))

RECURSIVE AddTerms(_, _, _, _)
AddTerms(G, terms, prefix, type) ==
    IF terms = <<>> THEN G
    ELSE AddTerms(add_node(G, <<prefix, Head(terms).id>>, TermAttrs(type)),
                  Tail(terms), prefix, type)

\* The nodes that carry a 'content' attribute.
HasContentAttr(G, k) == G.data[k].type \in {"post", "page"}

\* Only the first URL token of the text (a search in place of findall).
LinksFirstOnly(c) ==
    LET urls == SelectSeq(c, LAMBDA r : r.kind = "url")
    IN  IF urls = <<>> THEN <<>> ELSE <<urls[1].ref>>

\* re.findall(site_url/[^"'>\s]+, content): the URL tokens of the text, in order.
Links(c) ==
    LET urls == SelectSeq(c, LAMBDA r : r.kind = "url")
    IN  [i \in 1..Len(urls) |-> urls[i].ref]

\* The inner loop of build_internal_link_edges: the first node, in insertion
\* order, whose url equals the link; 0 when there is none.
FindTarget(G, link) ==
    LET hits == { i \in 1..Len(G.order) : G.data[G.order[i]].url = link }
    IN  IF hits = {} THEN 0 ELSE CHOOSE i \in hits : \A j \in hits : i <= j

RECURSIVE LinkEdgesOf(_, _, _)
LinkEdgesOf(G, s, links) ==
    IF links = <<>> THEN G
    ELSE LET t == FindTarget(G, Head(links))
         IN  LinkEdgesOf(IF t = 0 THEN G ELSE add_edge(G, s, G.order[t], "internal_link"),
                         s, Tail(links))

RECURSIVE LinkLoop(_, _)
LinkLoop(G, i) ==
    IF i > Len(G.order) THEN G
    ELSE LET k == G.order[i]
         IN  LinkLoop(IF HasContentAttr(G, k) THEN LinkEdgesOf(G, k, Links(G.data[k].content))
                      ELSE G,
                      i + 1)

build_internal_link_edges(G) == LinkLoop(G, 1)

RECURSIVE AddTermEdges(_, _, _, _, _)
AddTermEdges(G, s, ids, prefix, type) ==
    IF ids = <<>> THEN G
    ELSE AddTermEdges(add_edge(G, s, <<prefix, Head(ids)>>, type), s, Tail(ids), prefix, type)

\* The loop "for node_id, data in self.content_graph.nodes(data=True)" of
\* build_taxonomy_edges, at its i-th node; n0 is the number of nodes when the
\* loop began.  The loop walks the graph's own node dict, so the step after a
\* body that added a node raises RuntimeError (dictionary changed size
\* during iteration), also when that body was the last; data['type'] of a
\* node without attributes raises KeyError.
RECURSIVE TaxonomyLoop(_, _, _)
TaxonomyLoop(G, i, n0) ==
    IF Len(G.order) # n0 THEN [graph |-> G, error |-> "RuntimeError"]
    ELSE IF i > n0 THEN [graph |-> G, error |-> "none"]
    ELSE LET k == G.order[i]
             d == G.data[k]
         IN  IF d.type = "missing" THEN [graph |-> G, error |-> "KeyError"]
             ELSE IF d.type = "post"
             THEN TaxonomyLoop(AddTermEdges(AddTermEdges(G, k, d.categories, "cat",
                                                         "categorized_as"),
                                            k, d.tags, "tag", "tagged_as"),
                               i + 1, n0)
             ELSE TaxonomyLoop(G, i + 1, n0)

build_taxonomy_edges(G, c) ==
    LET G1 == AddTerms(G, c.categories, "cat", "category")
        G2 == AddTerms(G1, c.tags, "tag", "tag")
    IN  TaxonomyLoop(G2, 1, Len(G2.order))

\* build_content_graph on the analyzer's graph G: [graph, error].
build_content_graph(G, c) ==
    build_taxonomy_edges(build_internal_link_edges(AddPages(AddPosts(G, c.posts), c.pages)), c)

(***************************************************************************)
(* identify_semantic_clusters.  The TF-IDF vectors and their cosine        *)
(* similarities come from the vectorizer library: the similarity matrix is *)
(* an input, symmetric, in tenths.  A text without any term has the zero   *)
(* vector (similarity 0 to everything, itself included), a text with terms *)
(* has similarity 1.0 to itself.  The theme keywords of a cluster are the  *)
(* library's feature names and are left out.                               *)
(***************************************************************************)
SimLevels == {0, 4, 10}
ClusterSimLevels == {0, 3, 4, 10}

\* The vectorizer (token pattern \b\w\w+\b, English stop words left out)
\* takes words of two or more letters or digits that are no stop words: the
\* tokens ##, ### and -, stop words and words of one character yield no term.
HasTerms(text) ==
    \E i \in 1..Len(text) :
        text[i].n > 0 /\ text[i].kind \notin {"md_h2", "md_h3", "dash", "stop"}

PairsBelow(n) == { p \in (1..n) \X (1..n) : p[1] < p[2] }

Ordered(i, j) == IF i < j THEN <<i, j>> ELSE <<j, i>>

\* The symmetric matrix with the given zero-vector documents and the given
\* similarities of the pairs i < j of the other documents.
Matrix(n, zero, upper) ==
    [p \in (1..n) \X (1..n) |->
        IF p[1] \in zero \/ p[2] \in zero THEN 0
        ELSE IF p[1] = p[2] THEN 10
        ELSE upper[Ordered(p[1], p[2])]]

\* Cosines of vectors: two documents at similarity 1.0 have the same
\* direction, hence the same similarity to every other document.
Cosines(n, m) ==
    \A i, j \in 1..n : m[<<i, j>>] = 10 => \A k \in 1..n : m[<<i, k>>] = m[<<j, k>>]

\* The similarity matrices of n documents, those of zero without a term, over
\* the given levels.
MatricesWithZero(n, zero, levels) ==
    { m \in { Matrix(n, zero, upper) :
                upper \in [{ p \in PairsBelow(n) : p[1] \notin zero /\ p[2] \notin zero }
                            -> levels] } :
        Cosines(n, m) }

\* Every similarity matrix of n documents over the given levels.
AllMatrices(n, levels) ==
    UNION { MatricesWithZero(n, zero, levels) : zero \in SUBSET (1..n) }

\* The most distinct terms the items of a run can give the vectorizer: a
\* plain word is one term; [gallery] and @type are one term however often
\* they occur, and so is the name in a markup group; a URL is cut into terms
\* at every character that is no letter, digit or underscore, and its path
\* can hold any number of them, so one URL alone can fill the vocabulary.
MaxTerms(r) ==
    IF r.n = 0 \/ r.kind \in {"md_h2", "md_h3", "dash", "stop"} THEN 0
    ELSE IF r.kind = "word" THEN r.n
    ELSE IF r.kind \in {"url", "tag_a"} THEN max_features
    ELSE 1

\* The most distinct terms a text can give.
TermBound(text) == SumSeq([i \in 1..Len(text) |-> MaxTerms(text[i])])

\* The sets of documents with terms that can lose every term to max_features:
\* the vocabulary is cut only when the corpus holds more distinct terms than
\* max_features, and the terms kept are terms of the documents not cut, so
\* these can hold max_features distinct terms or more.
CutSets(texts) ==
    LET with == { i \in 1..Len(texts) : HasTerms(texts[i]) }
    IN  { cut \in SUBSET with :
            \/ cut = {}
            \/ SumSeq([i \in 1..Len(texts) |->
                          IF i \in with \ cut THEN TermBound(texts[i]) ELSE 0])
               >= max_features }

\* The similarity matrices the given texts can have: a text records the kinds
\* of its tokens, not its words, so any two texts with terms can be at any
\* similarity; a text without a term, or with no term left in the
\* vocabulary, is a zero vector.
SimilarityMatrices(texts) ==
    LET n == Len(texts)
        none == { i \in 1..n : ~HasTerms(texts[i]) }
    IN  UNION { MatricesWithZero(n, none \cup cut, SimLevels) : cut \in CutSets(texts) }

\* The members list with the threshold taken in: 0.3 already counts.
MembersInclusive(node_ids, similarity_matrix, i) ==
    LET js == SelectSeq([j \in 1..Len(node_ids) |-> j],
                        LAMBDA j : similarity_matrix[<<i, j>>] >= 3)
    IN  [m \in 1..Len(js) |-> [id |-> node_ids[js[m]],
                               similarity |-> similarity_matrix[<<i, js[m]>>]]]

\* The members list one center collects: every document j, visited or not,
\* with similarity_matrix[i][j] > 0.3, in document order.
Members(node_ids, similarity_matrix, i) ==
    LET js == SelectSeq([j \in 1..Len(node_ids) |-> j],
                        LAMBDA j : similarity_matrix[<<i, j>>] > 3)
    IN  [m \in 1..Len(js) |-> [id |-> node_ids[js[m]],
                               similarity |-> similarity_matrix[<<i, js[m]>>]]]

\* The loop without its test of visited: every document is opened as a center.
RECURSIVE ClusterLoopRevisiting(_, _, _, _, _)
ClusterLoopRevisiting(node_ids, similarity_matrix, i, visited, clusters) ==
    IF i > Len(node_ids) THEN clusters
    ELSE LET members == Members(node_ids, similarity_matrix, i)
             cluster == [center |-> node_ids[i], members |-> members]
         IN  ClusterLoopRevisiting(node_ids, similarity_matrix, i + 1,
                         visited \cup { members[m].id : m \in 1..Len(members) },
                         IF Len(members) > 1 THEN Append(clusters, cluster) ELSE clusters)

\* The loop "for i in range(len(node_ids))" from its i-th document on.
RECURSIVE ClusterLoop(_, _, _, _, _)
ClusterLoop(node_ids, similarity_matrix, i, visited, clusters) ==
    IF i > Len(node_ids) THEN clusters
    ELSE IF node_ids[i] \in visited
    THEN ClusterLoop(node_ids, similarity_matrix, i + 1, visited, clusters)
    ELSE LET members == Members(node_ids, similarity_matrix, i)
             cluster == [center |-> node_ids[i], members |-> members]
         IN  ClusterLoop(node_ids, similarity_matrix, i + 1,
                         visited \cup { members[m].id : m \in 1..Len(members) },
                         IF Len(members) > 1 THEN Append(clusters, cluster) ELSE clusters)

Clusters(node_ids, similarity_matrix) ==
    ClusterLoop(node_ids, similarity_matrix, 1, {}, <<>>)

\* The loop of lines 389-392: [node_ids, content_texts, error], the keys and
\* the texts of the posts and pages with a non-empty content, in node order.
\* data['type'] of a node without attributes raises KeyError, outside the try.
ClusterDocuments(G) ==
    IF \E k \in Nodes(G) : G.data[k].type = "missing"
    THEN [node_ids |-> <<>>, content_texts |-> <<>>, error |-> "KeyError"]
    ELSE LET ids == SelectSeq(G.order, LAMBDA k : G.data[k].type \in {"post", "page"}
                                                   /\ G.data[k].content # <<>>)
         IN  [node_ids |-> ids,
              content_texts |-> [i \in 1..Len(ids) |-> G.data[ids[i]].content],
              error |-> "none"]

\* identify_semantic_clusters given the library's matrix: [result, error].
\* No document, or no term in any document (fit_transform raises ValueError,
\* caught), gives [].
identify_semantic_clusters(G, similarity_matrix) ==
    LET docs == ClusterDocuments(G)
        texts == docs.content_texts
    IN  IF docs.error # "none" THEN [result |-> <<>>, error |-> docs.error]
        ELSE IF docs.node_ids = <<>> THEN [result |-> <<>>, error |-> "none"]
        ELSE IF \A i \in 1..Len(texts) : ~HasTerms(texts[i])
        THEN [result |-> <<>>, error |-> "none"]
        ELSE [result |-> Clusters(docs.node_ids, similarity_matrix), error |-> "none"]

(***************************************************************************)
(* analyze_content_depth.                                                  *)
(***************************************************************************)
NoAnalysis == [content_scores |-> <<>>, hub_potential |-> <<>>,
               orphan_content |-> <<>>, semantic_clusters |-> <<>>]

\* One entry of content_scores; id is the key the entry is stored under.
ScoreData(G, k) ==
    [id |-> k,
     url |-> G.data[k].url,
     depth_score |-> calculate_content_depth(G.data[k].content),
     word_count |-> WordCount(G.data[k].content),
     internal_links |-> out_degree(G, k),
     backlinks |-> in_degree(G, k)]

ContentScores(G) ==
    LET ids == SelectSeq(G.order, LAMBDA k : G.data[k].type \in {"post", "page"})
    IN  [i \in 1..Len(ids) |-> ScoreData(G, ids[i])]

HubPotential(scores) ==
    SelectSeq(scores, LAMBDA sd : sd.internal_links > 5 /\ sd.depth_score > 7)

\* The orphan rule with its boundary taken in: 2 leaving edges still count.
OrphanContentInclusive(scores) ==
    SelectSeq(scores, LAMBDA sd : sd.backlinks = 0 /\ sd.internal_links <= 2)

OrphanContent(scores) ==
    SelectSeq(scores, LAMBDA sd : sd.backlinks = 0 /\ sd.internal_links < 2)

\* analyze_content_depth: [result, error].  data['type'] of a node without
\* attributes raises KeyError in the first loop.
analyze_content_depth(G, similarity_matrix) ==
    IF \E k \in Nodes(G) : G.data[k].type = "missing"
    THEN [result |-> NoAnalysis, error |-> "KeyError"]
    ELSE LET scores == ContentScores(G)
             clusters == identify_semantic_clusters(G, similarity_matrix)
         IN  [result |-> [content_scores |-> scores,
                          hub_potential |-> HubPotential(scores),
                          orphan_content |-> OrphanContent(scores),
                          semantic_clusters |-> clusters.result],
              error |-> clusters.error]

(***************************************************************************)
(* analyze_query_patterns and generate_recommendations.  Of the dict the   *)
(* qualitative analysis yields only the value under 'gaps' is read by the  *)
(* recommendations: the key is absent, or holds None, a string or a list   *)
(* of texts (the structure asked for).                                     *)
(* A response text is what parse_claude_response tells apart in it:        *)
(* whether the pattern \{[\s\S]*\} finds a group, whether json.loads takes *)
(* the group, and the 'gaps' of the object loaded.                         *)
(***************************************************************************)
NoGaps == [kind |-> "absent", items |-> <<>>]

NullGaps == [kind |-> "null", items |-> <<>>]

GapList(items) == [kind |-> "list", items |-> items]

\* A 'gaps' that is a string: iterating it gives its characters.
GapString(chars) == [kind |-> "string", items |-> chars]

Text(braces, loads, gaps) == [braces |-> braces, loads |-> loads, gaps |-> gaps]

NoText == Text(FALSE, FALSE, NoGaps)

\* What the call self.claude.messages.create(...) and response.content[0].text
\* come to in a run: not reached, an exception, or a text.
NotCalled == [called |-> FALSE, raises |-> FALSE, text |-> NoText]

Raises == [called |-> TRUE, raises |-> TRUE, text |-> NoText]

Returns(text) == [called |-> TRUE, raises |-> FALSE, text |-> text]

ClaudeResponses ==
    { Raises,
      Returns(Text(FALSE, FALSE, NoGaps)),
      Returns(Text(TRUE, FALSE, NoGaps)),
      Returns(Text(TRUE, TRUE, NoGaps)),
      Returns(Text(TRUE, TRUE, NullGaps)),
      Returns(Text(TRUE, TRUE, GapString(<< <<"char", 1>>, <<"char", 2>> >>))),
      Returns(Text(TRUE, TRUE, GapList(<< <<"gap", 1>>, <<"gap", 2>> >>))) }

\* fallback_parse: complex_queries and recommendations are taken from the
\* text, gaps is the empty list.
fallback_parse(text) == [gaps |-> GapList(<<>>)]

\* parse_claude_response: the object loaded from the {...} group; the fallback
\* when there is no group or json.loads raises.
parse_claude_response(response_text) ==
    IF response_text.braces
    THEN IF response_text.loads
         THEN [gaps |-> response_text.gaps]
         ELSE fallback_parse(response_text)
    ELSE fallback_parse(response_text)

\* The patterns dict analyze_query_patterns starts from: it has no 'gaps' key.
DefaultPatterns == [gaps |-> NoGaps]

\* patterns.update(analysis): a key of analysis replaces the value of patterns.
Update(patterns, analysis) ==
    [gaps |-> IF analysis.gaps.kind = "absent" THEN patterns.gaps ELSE analysis.gaps]

\* get_content_sample reads data['type'] of the first 20 nodes: KeyError on a
\* node without attributes.
SampleRaises(G) ==
    \E i \in 1..Min(Len(G.order), 20) : G.data[G.order[i]].type = "missing"

\* analyze_query_patterns: [result, error].  The sample is taken outside the
\* try; an exception of the call or of reading the response is caught and the
\* starting patterns are returned.
analyze_query_patterns(G, response) ==
    IF SampleRaises(G) THEN [result |-> DefaultPatterns, error |-> "KeyError"]
    ELSE IF response.raises THEN [result |-> DefaultPatterns, error |-> "none"]
    ELSE [result |-> Update(DefaultPatterns, parse_claude_response(response.text)),
          error |-> "none"]

\* s[:n]
Take(s, n) == SubSeq(s, 1, Min(Len(s), n))

\* One recommendation: about is the gap text, the url of the orphan or hub,
\* or the center of the cluster whose theme is named.
Recommendation(type, priority, about) ==
    [type |-> type, priority |-> priority, about |-> about]

\* generate_recommendations: [result, error].  Iterating a 'gaps' of None
\* raises TypeError; a 'gaps' that is a string gives one content_gap
\* recommendation for each of its characters.
generate_recommendations(patterns, analysis) ==
    IF patterns.gaps.kind = "null" THEN [result |-> <<>>, error |-> "TypeError"]
    ELSE LET gaps == IF patterns.gaps.kind \in {"list", "string"}
                     THEN patterns.gaps.items ELSE <<>>
             orphans == Take(analysis.orphan_content, 5)
             hubs == Take(analysis.hub_potential, 3)
             clusters == Take(analysis.semantic_clusters, 3)
         IN  [result |->
                  [i \in 1..Len(gaps) |->
                      Recommendation("content_gap", "high", gaps[i])]
                  \o [i \in 1..Len(orphans) |->
                      Recommendation("orphan_content", "medium", orphans[i].url)]
                  \o [i \in 1..Len(hubs) |->
                      Recommendation("hub_optimization", "high", hubs[i].url)]
                  \o [i \in 1..Len(clusters) |->
                      Recommendation("semantic_bridge", "medium", clusters[i].center)],
              error |-> "none"]

(***************************************************************************)
(* The inputs explored: what the content source returns.  Every record has *)
(* its own id and its own canonical link; a post lists the ids of its      *)
(* categories and tags in ascending order.                                 *)
(***************************************************************************)
Words(n) == Run("word", n)

Post(id, html, categories, tags) ==
    [id |-> id, link |-> <<"post", id>>, html |-> html,
     categories |-> categories, tags |-> tags]

Page(id, html) == [id |-> id, link |-> <<"page", id>>, html |-> html]

Terms(k) == [i \in 1..k |-> [id |-> i]]

EmptySite == [posts |-> <<>>, pages |-> <<>>, categories |-> <<>>, tags |-> <<>>]

IdLists(S) == { SortedSeq(T) : T \in SUBSET S }

ShortHtml == <<Words(100)>>

\* Posts of which the first declares any categories and tags and the others
\* category 1; the site supplies the categories 1..k and the tags 1..t, so a
\* declared id may match no record.
TaxonomySites ==
    UNION { { [posts |-> [i \in 1..n |-> IF i = 1 THEN Post(i, ShortHtml, cs, tg)
                                         ELSE Post(i, ShortHtml, <<1>>, <<>>)],
               pages |-> <<>>,
               categories |-> Terms(k),
               tags |-> Terms(t)] :
                cs \in IdLists(1..MaxCatId),
                tg \in IdLists(TagIds),
                k \in 0..MaxCatId,
                t \in 0..Cardinality(TagIds) } :
            n \in 0..MaxPosts }

LinkHtmls ==
    { <<Words(600), Url(<<"post", 1>>)>>,
      <<Anchor(<<"post", 2>>), Words(1), Run("tag_end", 1), Url(GoneRef), Url(<<"page", 1>>)>>,
      <<Url(<<"post", 2>>), Url(<<"post", 1>>), Words(1200)>>,
      <<>> }

PageLists ==
    { <<>>,
      <<Page(1, <<Url(<<"page", 1>>), Words(50)>>)>>,
      <<Page(1, <<Words(700), Url(<<"post", 1>>)>>)>>,
      <<Page(1, <<Run("stop", 3)>>)>> }

\* One or two posts, and pages, that differ in the links their bodies carry.
LinkSites ==
    UNION { { [posts |-> [i \in 1..n |-> Post(i, h[i], <<>>, <<>>)],
               pages |-> pages,
               categories |-> <<>>,
               tags |-> <<>>] :
                h \in [1..n -> LinkHtmls], pages \in PageLists } :
            n \in {1, 2} }

HubLinks == <<Url(<<"post", 1>>), Url(<<"post", 2>>), Url(<<"page", 1>>)>>

HubHtmls ==
    { HubLinks \o <<Words(2100), Run("md_h2", 4), Run("gallery", 1), Run("dash", 1),
                    Run("schema", 1), Words(1)>>,
      HubLinks \o <<Words(2100), Run("md_h2", 4), Run("gallery", 1), Run("dash", 1),
                    Words(1)>>,
      <<Url(<<"post", 2>>), Words(2100), Run("md_h2", 4), Run("gallery", 1),
        Run("dash", 1), Run("schema", 1), Words(1)>> }

\* A richly structured post that links to and is filed under many nodes.
HubSites ==
    { [posts |-> <<Post(1, h, SortedSeq(1..c), <<1>>), Post(2, ShortHtml, <<>>, t)>>,
       pages |-> <<Page(1, <<Words(700)>>), Page(2, <<Run("stop", 300)>>)>>,
       categories |-> Terms(MaxCatId),
       tags |-> Terms(1)] :
        h \in HubHtmls, c \in 1..MaxCatId, t \in IdLists(TagIds) }

\* The end-to-end scenario: articles A = 1, B = 2, C = 3 and the category
\* News = 1.  A refers to B, has two level-2 headings and one image, each in
\* one of the ways a body can write it, and 2500 words in its cleaned text.
ScenarioLinks == { <<Anchor(<<"post", 2>>), Words(1), Run("tag_end", 1)>>,
                   <<Url(<<"post", 2>>)>> }

ScenarioHeadings == { <<Run("tag_h2", 1), Words(1), Run("tag_end", 1)>>,
                      <<Run("md_h2", 1), Words(1)>> }

ScenarioImages == { <<Run("tag_img", 1)>>, <<Run("gallery", 1)>> }

ScenarioA(link, heading, image) ==
    LET parts == link \o heading \o heading \o image
    IN  Post(1, parts \o <<Words(2500 - WordCount(clean_html(parts)))>>, <<1>>, <<>>)

ScenarioB == Post(2, <<Words(2500)>>, <<1>>, <<>>)

ScenarioC == Post(3, <<Words(100)>>, <<>>, <<>>)

Orderings(S) ==
    { q \in [1..Cardinality(S) -> S] : \A i, j \in DOMAIN q : i # j => q[i] # q[j] }

ScenarioSites ==
    { [posts |-> posts, pages |-> <<>>, categories |-> Terms(1), tags |-> <<>>] :
        posts \in UNION { Orderings({ScenarioA(l, h, g), ScenarioB, ScenarioC}) :
                            l \in ScenarioLinks, h \in ScenarioHeadings,
                            g \in ScenarioImages } }

Sites == TaxonomySites \cup LinkSites \cup HubSites \cup ScenarioSites

\* The sites of the runs of an analyzer that is used for more than one report.
RerunSites ==
    { EmptySite,
      [EmptySite EXCEPT !.posts = <<Post(1, ShortHtml, <<>>, <<>>)>>],
      [EmptySite EXCEPT !.posts = <<Post(1, ShortHtml, <<1>>, <<>>)>>,
                        !.categories = Terms(1)],
      [EmptySite EXCEPT !.posts = <<Post(1, ShortHtml, <<1>>, <<>>)>>],
      [EmptySite EXCEPT !.posts = <<Post(1, <<Url(<<"post", 2>>), Words(600)>>, <<>>, <<>>),
                                    Post(2, ShortHtml, <<>>, <<1>>)>>,
                        !.tags = Terms(1)],
      [EmptySite EXCEPT !.posts = <<Post(2, <<Words(700)>>, <<>>, <<>>)>>,
                        !.pages = <<Page(1, <<Url(<<"post", 2>>)>>)>>] }

\* The arguments of calculate_content_depth explored on its own: the content
\* attribute of a node, markup included (the function takes any text).
DepthWordCounts == {0, 100, 500, 501, 1000, 1001, 2000, 2001, 2500}

DepthContents ==
    { IF wordsFirst
      THEN <<Words(w)>> \o m \o l \o <<Run("schema", sc), Run("md_h3", h3), Run("md_h2", h2)>>
      ELSE <<Run("md_h2", h2), Run("md_h3", h3), Run("schema", sc)>> \o m \o l \o <<Words(w)>> :
        w \in DepthWordCounts, h2 \in {0, 3, 4}, h3 \in {0, 5, 6}, sc \in {0, 1},
        m \in {<<>>, <<Run("tag_img", 1)>>, <<Run("gallery", 1)>>,
              <<Anchor(<<"post", 1>>), Run("stop", 1), Run("tag_end", 1)>>},
        l \in {<<>>, <<Run("tag_ul", 1)>>, <<Run("dash", 1)>>},
        wordsFirst \in BOOLEAN }

\* The arguments of the clustering loop explored on its own: up to MaxDocs
\* documents in node order with every similarity matrix over the levels.
ClusterInputs ==
    UNION { { [node_ids |-> [i \in 1..n |-> <<"post", i>>], similarity_matrix |-> m] :
                m \in AllMatrices(n, ClusterSimLevels) } :
            n \in 0..MaxDocs }

(***************************************************************************)
(* The state machine.  site is the content source, content what            *)
(* fetch_all_content returned, content_graph the analyzer's graph (made in *)
(* __init__, never replaced), claude what the call of the qualitative      *)
(* analysis came to, query_patterns the value analyze_query_patterns       *)
(* returned, depth_analysis the value analyze_content_depth returned,      *)
(* recommendations the value generate_recommendations returned, pc the     *)
(* position in generate_optimization_report, error the exception that      *)
(* ended the report, runs the reports still to be asked for, page the page *)
(* number of the next request of fetch_posts or fetch_pages; arg and ret   *)
(* are the argument and the result of a function explored on its own.      *)
(***************************************************************************)
NoValue == <<>>

InitAnalyzer ==
    /\ content = EmptySite
    /\ content_graph = EmptyGraph
    /\ depth_analysis = NoAnalysis
    /\ error = "none"
    /\ claude = NotCalled
    /\ query_patterns = DefaultPatterns
    /\ recommendations = <<>>
    /\ page = 1

Init ==
    /\ site \in Sites
    /\ InitAnalyzer
    /\ pc = "idle"
    /\ runs = 1
    /\ arg = NoValue
    /\ ret = NoValue

InitRerun ==
    /\ site \in RerunSites
    /\ InitAnalyzer
    /\ pc = "idle"
    /\ runs = MaxRuns
    /\ arg = NoValue
    /\ ret = NoValue

InitDepth ==
    /\ site = EmptySite
    /\ InitAnalyzer
    /\ pc = "call_calculate_content_depth"
    /\ runs = 0
    /\ arg \in DepthContents
    /\ ret = NoValue

InitClusters ==
    /\ site = EmptySite
    /\ InitAnalyzer
    /\ pc = "call_clusters"
    /\ runs = 0
    /\ arg \in ClusterInputs
    /\ ret = NoValue

\* The batch a request for the given page of a list is answered with.
Batch(list, number) ==
    SubSeq(list, (number - 1) * per_page + 1, Min(number * per_page, Len(list)))

\* generate_optimization_report, first step: content = self.fetch_all_content(),
\* which asks the site for its posts, pages, categories and tags in turn (and
\* for its media, which nothing reads).  Every request is answered from the
\* site as it is when asked; a request that fails (an exception or a status
\* other than 200) is passed over.
\*
\* fetch_posts, one turn of its loop: the request for the next page of posts.
\* A non-empty batch is appended and, after the wait, the next page is asked
\* for; an empty batch or a failed request ends the loop with the posts
\* fetched so far.  The first request of a report starts the report.
FetchPosts ==
    /\ pc \in {"idle", "fetch_posts"}
    /\ pc = "idle" => runs > 0
    /\ \E ok \in BOOLEAN :
         LET posts == IF pc = "idle" THEN <<>> ELSE content.posts
             batch == IF ok THEN Batch(site.posts, page) ELSE <<>>
         IN  /\ content' = [(IF pc = "idle" THEN EmptySite ELSE content)
                               EXCEPT !.posts = posts \o batch]
             /\ pc' = IF batch = <<>> THEN "fetch_pages" ELSE "fetch_posts"
             /\ page' = IF batch = <<>> THEN 1 ELSE page + 1
    /\ runs' = IF pc = "idle" THEN runs - 1 ELSE runs
    /\ depth_analysis' = NoAnalysis
    /\ error' = "none"
    /\ claude' = NotCalled
    /\ query_patterns' = DefaultPatterns
    /\ recommendations' = <<>>
    /\ UNCHANGED <<site, content_graph, arg, ret>>

\* fetch_pages, one turn of its loop.
FetchPages ==
    /\ pc = "fetch_pages"
    /\ \E ok \in BOOLEAN :
         LET batch == IF ok THEN Batch(site.pages, page) ELSE <<>>
         IN  /\ content' = [content EXCEPT !.pages = @ \o batch]
             /\ pc' = IF batch = <<>> THEN "fetch_categories" ELSE "fetch_pages"
             /\ page' = IF batch = <<>> THEN 1 ELSE page + 1
    /\ UNCHANGED <<site, content_graph, depth_analysis, error, runs, arg, ret,
                   claude, query_patterns, recommendations>>

\* fetch_categories: one request, for the first per_page categories.
FetchCategories ==
    /\ pc = "fetch_categories"
    /\ \E ok \in BOOLEAN :
         content' = [content EXCEPT
                        !.categories = IF ok THEN Batch(site.categories, 1) ELSE <<>>]
    /\ pc' = "fetch_tags"
    /\ UNCHANGED <<site, content_graph, depth_analysis, error, runs, arg, ret,
                   claude, query_patterns, recommendations, page>>

\* fetch_tags: one request, for the first per_page tags.
FetchTags ==
    /\ pc = "fetch_tags"
    /\ \E ok \in BOOLEAN :
         content' = [content EXCEPT !.tags = IF ok THEN Batch(site.tags, 1) ELSE <<>>]
    /\ pc' = "fetched"
    /\ UNCHANGED <<site, content_graph, depth_analysis, error, runs, arg, ret,
                   claude, query_patterns, recommendations, page>>

\* self.build_content_graph(content)
BuildContentGraph ==
    /\ pc = "fetched"
    /\ LET r == build_content_graph(content_graph, content)
       IN  /\ content_graph' = r.graph
           /\ error' = r.error
           /\ pc' = IF r.error = "none" THEN "built" ELSE "raised"
    /\ UNCHANGED <<site, content, depth_analysis, runs, arg, ret,
                   claude, query_patterns, recommendations, page>>

\* query_patterns = self.analyze_query_patterns()
AnalyzeQueryPatterns ==
    /\ pc = "built"
    /\ \E response \in ClaudeResponses :
         LET r == analyze_query_patterns(content_graph, response)
         IN  /\ claude' = IF SampleRaises(content_graph) THEN NotCalled ELSE response
             /\ query_patterns' = r.result
             /\ error' = r.error
             /\ pc' = IF r.error = "none" THEN "queried" ELSE "raised"
    /\ UNCHANGED <<site, content, content_graph, depth_analysis, runs, arg, ret,
                   recommendations, page>>

\* The analysis step made to write what it finds into the graph: an edge from
\* the center of every cluster to each of its members.
AnalyzeContentDepthLinkingClusters ==
    /\ pc = "queried"
    /\ \E similarity_matrix \in SimilarityMatrices(ClusterDocuments(content_graph).content_texts) :
         LET r == analyze_content_depth(content_graph, similarity_matrix)
             found == r.result.semantic_clusters
         IN  /\ depth_analysis' = r.result
             /\ error' = r.error
             /\ pc' = IF r.error = "none" THEN "analyzed" ELSE "raised"
             /\ content_graph' =
                    [content_graph EXCEPT !.edges = @ \cup
                        { [src |-> found[a[1]].center,
                           dst |-> found[a[1]].members[a[2]].id,
                           type |-> "semantic_bridge"] :
                          a \in { b \in (1..Len(found)) \X (1..MaxDocs + MaxPosts) :
                                    b[2] <= Len(found[b[1]].members) } }]
    /\ UNCHANGED <<site, content, runs, arg, ret,
                   claude, query_patterns, recommendations, page>>

\* depth_analysis = self.analyze_content_depth()
AnalyzeContentDepth ==
    /\ pc = "queried"
    /\ \E similarity_matrix \in SimilarityMatrices(ClusterDocuments(content_graph).content_texts) :
         LET r == analyze_content_depth(content_graph, similarity_matrix)
         IN  /\ depth_analysis' = r.result
             /\ error' = r.error
             /\ pc' = IF r.error = "none" THEN "analyzed" ELSE "raised"
    /\ UNCHANGED <<site, content, content_graph, runs, arg, ret,
                   claude, query_patterns, recommendations, page>>

\* recommendations = self.generate_recommendations(query_patterns,
\* depth_analysis); the report is then compiled from the values at hand.
GenerateRecommendations ==
    /\ pc = "analyzed"
    /\ LET r == generate_recommendations(query_patterns, depth_analysis)
       IN  /\ recommendations' = r.result
           /\ error' = r.error
           /\ pc' = IF r.error = "none" THEN "reported" ELSE "raised"
    /\ UNCHANGED <<site, content, content_graph, depth_analysis, runs, arg, ret,
                   claude, query_patterns, page>>

\* The site's content changes while its lists are being fetched: between two
\* requests, the wait after a batch included.
SiteChangesDuringFetch ==
    /\ pc \in {"fetch_posts", "fetch_pages", "fetch_categories", "fetch_tags"}
    /\ site' \in RerunSites \ {site}
    /\ UNCHANGED <<content, content_graph, depth_analysis, pc, error, runs, arg, ret,
                   claude, query_patterns, recommendations, page>>

\* Between two reports of one analyzer the site's content changes.
SiteChanges ==
    /\ pc \in {"reported", "raised"}
    /\ runs > 0
    /\ site' \in RerunSites
    /\ pc' = "idle"
    /\ UNCHANGED <<content, content_graph, depth_analysis, error, runs, arg, ret,
                   claude, query_patterns, recommendations, page>>

CallCalculateContentDepth ==
    /\ pc = "call_calculate_content_depth"
    /\ ret' = calculate_content_depth(arg)
    /\ pc' = "return_calculate_content_depth"
    /\ UNCHANGED <<site, content, content_graph, depth_analysis, error, runs, arg,
                   claude, query_patterns, recommendations, page>>

CallClusters ==
    /\ pc = "call_clusters"
    /\ ret' = Clusters(arg.node_ids, arg.similarity_matrix)
    /\ pc' = "return_clusters"
    /\ UNCHANGED <<site, content, content_graph, depth_analysis, error, runs, arg,
                   claude, query_patterns, recommendations, page>>

Next ==
    \/ FetchPosts
    \/ FetchPages
    \/ FetchCategories
    \/ FetchTags
    \/ BuildContentGraph
    \/ AnalyzeQueryPatterns
    \/ AnalyzeContentDepth
    \/ GenerateRecommendations

NextRerun == Next \/ SiteChangesDuringFetch \/ SiteChanges

Spec == Init /\ [][Next]_vars

SpecRerun == InitRerun /\ [][NextRerun]_vars

SpecDepth == InitDepth /\ [][CallCalculateContentDepth]_vars

SpecClusters == InitClusters /\ [][CallClusters]_vars

(***************************************************************************)
(* Vocabulary of the properties.                                           *)
(***************************************************************************)
BuildRan == pc \in {"built", "raised", "queried", "analyzed", "reported"}

\* The report ended in an exception of a step that works on the graph
\* (RuntimeError, KeyError), not of generate_recommendations (TypeError).
GraphStepRaised == pc = "raised" /\ error \in {"RuntimeError", "KeyError"}

\* The keys of the nodes the records of the content stand for.
RecordKeys(c) ==
    { <<"post", c.posts[i].id>> : i \in 1..Len(c.posts) }
    \cup { <<"page", c.pages[i].id>> : i \in 1..Len(c.pages) }
    \cup { <<"cat", c.categories[i].id>> : i \in 1..Len(c.categories) }
    \cup { <<"tag", c.tags[i].id>> : i \in 1..Len(c.tags) }

SuppliedIds(terms) == { terms[i].id : i \in 1..Len(terms) }

EdgesFrom(k, type) == { e \in content_graph.edges : e.src = k /\ e.type = type }

DocKeys == { k \in Nodes(content_graph) : content_graph.data[k].type \in {"post", "page"} }

\* C1: after build_content_graph every edge joins two nodes made from input
\* records, and no node exists that no record stands for: an unmatched
\* category or tag id yields neither an edge nor a node.
C1_EdgesJoinRecordNodes ==
    BuildRan =>
        /\ Nodes(content_graph) \subseteq RecordKeys(content)
        /\ \A e \in content_graph.edges :
              e.src \in RecordKeys(content) /\ e.dst \in RecordKeys(content)

\* C2: after build_content_graph the number of categorized_as edges leaving a
\* post is the number of its declared category ids that match a supplied
\* category record.
C2_CategorizedAsCount ==
    BuildRan =>
        \A i \in 1..Len(content.posts) :
            Cardinality(EdgesFrom(<<"post", content.posts[i].id>>, "categorized_as"))
            = Cardinality(Range(content.posts[i].categories)
                          \cap SuppliedIds(content.categories))

\* The position of a document in the argument of the clustering loop.
DocIndex(id) == CHOOSE i \in 1..Len(arg.node_ids) : arg.node_ids[i] = id

MemberIds(cluster) == { cluster.members[m].id : m \in 1..Len(cluster.members) }

\* C3: in the list returned by the clustering loop no document is a member of
\* two clusters.
C3_MembershipsDisjoint ==
    pc = "return_clusters" =>
        \A a, b \in 1..Len(ret) : a # b => MemberIds(ret[a]) \cap MemberIds(ret[b]) = {}

\* C4 as stated: any two members of one returned cluster have a similarity
\* above 0.3 to each other.
C4_MembersPairwiseSimilar ==
    pc = "return_clusters" =>
        \A a \in 1..Len(ret) : \A x, y \in MemberIds(ret[a]) :
            arg.similarity_matrix[<<DocIndex(x), DocIndex(y)>>] > 3

\* C4 as amended: every member of a returned cluster has a similarity above
\* 0.3 to that cluster's center, which is the similarity recorded for it; a
\* document at 0.3 or below from the center is no member of its cluster.
C4_MembersSimilarToCenter ==
    pc = "return_clusters" =>
        \A a \in 1..Len(ret) :
            LET c == DocIndex(ret[a].center)
            IN  /\ \A m \in 1..Len(ret[a].members) :
                      /\ arg.similarity_matrix[<<c, DocIndex(ret[a].members[m].id)>>] > 3
                      /\ ret[a].members[m].similarity
                         = arg.similarity_matrix[<<c, DocIndex(ret[a].members[m].id)>>]
                /\ \A j \in 1..Len(arg.node_ids) :
                      arg.similarity_matrix[<<c, j>>] <= 3
                      => arg.node_ids[j] \notin MemberIds(ret[a])

\* C4 witness: a returned cluster holds two members that are at 0.3 or below
\* from each other.
C4_Witness ==
    /\ pc = "return_clusters"
    /\ \E a \in 1..Len(ret) : \E x, y \in MemberIds(ret[a]) :
          arg.similarity_matrix[<<DocIndex(x), DocIndex(y)>>] <= 3

\* C5: the graph a run works on holds exactly the nodes and edges that the
\* content fetched for that run gives rise to.
C5_GraphIsOfThisRun ==
    pc \in {"built", "analyzed"} =>
        LET fresh == build_content_graph(EmptyGraph, content).graph
        IN  /\ Nodes(content_graph) = Nodes(fresh)
            /\ content_graph.edges = fresh.edges
            /\ \A k \in Nodes(fresh) : content_graph.data[k] = fresh.data[k]

\* C6: build_content_graph followed by analyze_content_depth never ends in a
\* raised exception, whatever well-formed content was fetched.
C6_NothingRaises == ~GraphStepRaised

HasEdge(s, t, type) == [src |-> s, dst |-> t, type |-> type] \in content_graph.edges

\* The entry of content_scores stored under the key, as a set (empty if none).
ScoresOf(k) ==
    { depth_analysis.content_scores[i] : i \in
        { j \in 1..Len(depth_analysis.content_scores) :
            depth_analysis.content_scores[j].id = k } }

OrphanIds ==
    { depth_analysis.orphan_content[i].id : i \in 1..Len(depth_analysis.orphan_content) }

HubIds ==
    { depth_analysis.hub_potential[i].id : i \in 1..Len(depth_analysis.hub_potential) }

\* C7: on the scenario site (A = post 1, B = post 2, C = post 3, News =
\* category 1) the two steps complete and give 3 post nodes and 1 category
\* node, the edges A -> B, A -> News and B -> News, a depth score of A of at
\* least 0.4, C among the orphans and B not among them.
C7_Scenario ==
    (content \in ScenarioSites /\ (pc = "analyzed" \/ GraphStepRaised)) =>
        /\ pc = "analyzed"
        /\ Nodes(content_graph) = {<<"post", 1>>, <<"post", 2>>, <<"post", 3>>, <<"cat", 1>>}
        /\ content_graph.data[<<"cat", 1>>].type = "category"
        /\ HasEdge(<<"post", 1>>, <<"post", 2>>, "internal_link")
        /\ HasEdge(<<"post", 1>>, <<"cat", 1>>, "categorized_as")
        /\ HasEdge(<<"post", 2>>, <<"cat", 1>>, "categorized_as")
        /\ \A sd \in ScoresOf(<<"post", 1>>) : sd.depth_score >= 4
        /\ ScoresOf(<<"post", 1>>) # {}
        /\ <<"post", 3>> \in OrphanIds
        /\ <<"post", 2>> \notin OrphanIds

\* The URL tokens of the body text of a post or page record.
UrlTokens(record) ==
    LET text == clean_html(record.html)
    IN  { text[i].ref : i \in { j \in 1..Len(text) : text[j].kind = "url" } }

\* The post and page records of the content, each with the key of its node.
Documents(c) ==
    { [key |-> <<"post", c.posts[i].id>>, record |-> c.posts[i]] : i \in 1..Len(c.posts) }
    \cup { [key |-> <<"page", c.pages[i].id>>, record |-> c.pages[i]] : i \in 1..Len(c.pages) }

DeclaresNoTerm(c) ==
    \A i \in 1..Len(c.posts) : c.posts[i].categories = <<>> /\ c.posts[i].tags = <<>>

\* C8: after the link edges are built, a post or page s has an internal_link
\* edge to t (t = s included) for every URL token of its body text that is the
\* url of a node t; a token that is no node's url gives no edge and no node,
\* and nothing is raised.
C8_LinkEdges ==
    BuildRan =>
        /\ \A d \in Documents(content) : \A t \in Nodes(content_graph) :
              content_graph.data[t].url \in UrlTokens(d.record)
              <=> HasEdge(d.key, t, "internal_link")
        /\ \A e \in content_graph.edges :
              e.type = "internal_link"
              => /\ e.src \in { d.key : d \in Documents(content) }
                 /\ e.dst \in { d.key : d \in Documents(content) }
        /\ \A k \in Nodes(content_graph) :
              k[1] \in {"post", "page", "gone"} => k \in RecordKeys(content)
        /\ DeclaresNoTerm(content) => ~GraphStepRaised

\* C8 witness: the link edges were built for a document that links to itself
\* and a document with a URL token that is no node's url.
C8_Witness ==
    /\ pc = "built"
    /\ \E d \in Documents(content) : HasEdge(d.key, d.key, "internal_link")
    /\ \E d \in Documents(content) : \E u \in UrlTokens(d.record) :
          \A t \in Nodes(content_graph) : content_graph.data[t].url # u

\* C9: a post or page is listed in orphan_content exactly when no edge enters
\* it and fewer than 2 leave it, in hub_potential exactly when more than 5
\* edges leave it and its depth score is above 0.7, and never in both.
C9_Classification ==
    pc = "analyzed" =>
        /\ OrphanIds \cup HubIds \subseteq DocKeys
        /\ \A k \in DocKeys :
              LET in == Cardinality({ e \in content_graph.edges : e.dst = k })
                  out == Cardinality({ e \in content_graph.edges : e.src = k })
                  score == calculate_content_depth(content_graph.data[k].content)
              IN  /\ k \in OrphanIds <=> (in = 0 /\ out < 2)
                  /\ k \in HubIds <=> (out > 5 /\ score > 7)
                  /\ ~(k \in OrphanIds /\ k \in HubIds)
                  /\ \A sd \in ScoresOf(k) : sd.depth_score = score

\* C9 witness: an analysis that lists a hub and an orphan and leaves a third
\* document out of both lists.
C9_Witness ==
    /\ pc = "analyzed"
    /\ HubIds # {}
    /\ OrphanIds # {}
    /\ DocKeys \ (HubIds \cup OrphanIds) # {}

\* A step keeps the graph: the same nodes in the same order, the same
\* attributes of every node, the same typed edges.
GraphKept ==
    /\ content_graph'.order = content_graph.order
    /\ \A k \in Nodes(content_graph) : content_graph'.data[k] = content_graph.data[k]
    /\ content_graph'.edges = content_graph.edges

\* C11: analyze_content_depth, with the calculate_content_depth and
\* identify_semantic_clusters calls it makes, and either function run on its
\* own, leaves the content graph as it was; the step changes the result it
\* returns, not the graph and not the content the graph was built from.
C11_AnalyzersLeaveGraph ==
    [][(pc \in {"queried", "call_calculate_content_depth", "call_clusters"})
       => (GraphKept /\ content' = content /\ site' = site)]_vars

\* C11 witness: an analysis of a graph with edges has returned scores, an
\* orphan and a cluster.
C11_Witness ==
    /\ pc = "analyzed"
    /\ content_graph.edges # {}
    /\ depth_analysis.content_scores # <<>>
    /\ depth_analysis.orphan_content # <<>>
    /\ depth_analysis.semantic_clusters # <<>>

\* The text is the structure the prompt asks for: a JSON object whose 'gaps'
\* is a list.
ExpectedStructure(text) == text.braces /\ text.loads /\ text.gaps.kind = "list"

\* The collaborator was called and failed: the call raised, or the text it
\* returned cannot be parsed as the expected structure (no {...} group, a
\* group json.loads does not take, or an object whose 'gaps' is no list).
CollaboratorFailed ==
    /\ claude.called
    /\ claude.raises \/ ~ExpectedStructure(claude.text)

\* The recommendations from position lo + 1 to lo + n are of the type and
\* priority given and are about the first n entries of the list, in order.
Recommends(lo, n, list, type, priority) ==
    \A i \in 1..n :
        /\ recommendations[lo + i].type = type
        /\ recommendations[lo + i].priority = priority
        /\ recommendations[lo + i].about = list[i]

\* C12: after the collaborator raised or returned text that cannot be parsed
\* as the expected structure, the report is not ended by an exception
\* (analyze_query_patterns has returned a result and generate_recommendations
\* does not raise), and once generate_recommendations has run the
\* recommendations are exactly the first 5 orphans, the first 3 hubs and the
\* first 3 clusters that the analysis of the current graph lists, with no
\* content-gap recommendation among them.
C12_CollaboratorFailureTolerated ==
    CollaboratorFailed =>
        /\ pc # "raised"
        /\ error = "none"
        /\ pc = "reported" =>
              LET orphans == [i \in 1..Len(depth_analysis.orphan_content) |->
                                 depth_analysis.orphan_content[i].url]
                  hubs == [i \in 1..Len(depth_analysis.hub_potential) |->
                              depth_analysis.hub_potential[i].url]
                  centers == [i \in 1..Len(depth_analysis.semantic_clusters) |->
                                 depth_analysis.semantic_clusters[i].center]
                  no == Min(Len(orphans), 5)
                  nh == Min(Len(hubs), 3)
                  nc == Min(Len(centers), 3)
              IN  /\ Len(recommendations) = no + nh + nc
                  /\ Recommends(0, no, orphans, "orphan_content", "medium")
                  /\ Recommends(no, nh, hubs, "hub_optimization", "high")
                  /\ Recommends(no + nh, nc, centers, "semantic_bridge", "medium")
                  /\ depth_analysis.orphan_content
                     = OrphanContent(ContentScores(content_graph))
                  /\ depth_analysis.hub_potential
                     = HubPotential(ContentScores(content_graph))
                  /\ \A i \in 1..Len(centers) : centers[i] \in DocKeys

Centers == { ret[a].center : a \in 1..Len(ret) }

\* C13: a document that an earlier center's scan took as a member is not
\* opened as a center: in the returned list the centers follow the document
\* order without repetition, every cluster has more than one member and holds
\* its own center, and no center is a member of a cluster before it.
C13_MembersAreNoLaterCenters ==
    pc = "return_clusters" =>
        /\ \A a \in 1..Len(ret) :
              /\ Len(ret[a].members) > 1
              /\ ret[a].center \in MemberIds(ret[a])
        /\ \A a, b \in 1..Len(ret) :
              a < b => /\ DocIndex(ret[a].center) < DocIndex(ret[b].center)
                       /\ ret[b].center \notin MemberIds(ret[a])

\* C13 witness: two clusters were returned, and a document after the first
\* center that the first cluster holds is the center of none.
C13_Witness ==
    /\ pc = "return_clusters"
    /\ Len(ret) >= 2
    /\ \E j \in 1..Len(arg.node_ids) :
          /\ j > DocIndex(ret[1].center)
          /\ arg.node_ids[j] \in MemberIds(ret[1])
          /\ arg.node_ids[j] \notin Centers

\* Every bonus condition of the depth score holds of the text.
AllBonusConditions(c) ==
    /\ H2Count(c) > 3
    /\ H3Count(c) > 5
    /\ HasMedia(c)
    /\ HasList(c)
    /\ HasSchema(c)

\* The text carries no marker of any bonus condition.
NoBonusMarker(c) ==
    \A i \in 1..Len(c) :
        c[i].n > 0 => c[i].kind \in {"word", "stop", "url", "tag_a", "tag_end"}

\* C10: calculate_content_depth returns a score in [0, 1], the sum of the
\* contributions that apply, capped at 1.0: exactly 1.0 with every bonus
\* condition and more than 2000 words, exactly 0.0 with at most 500 words and
\* no bonus marker.
C10_DepthScore ==
    pc = "return_calculate_content_depth" =>
        /\ ret \in 0..10
        /\ ret = Min((IF WordCount(arg) > 2000 THEN 3
                      ELSE IF WordCount(arg) > 1000 THEN 2
                      ELSE IF WordCount(arg) > 500 THEN 1 ELSE 0)
                     + (IF H2Count(arg) > 3 THEN 2 ELSE 0)
                     + (IF H3Count(arg) > 5 THEN 1 ELSE 0)
                     + (IF HasMedia(arg) THEN 1 ELSE 0)
                     + (IF HasList(arg) THEN 1 ELSE 0)
                     + (IF HasSchema(arg) THEN 2 ELSE 0), 10)
        /\ (AllBonusConditions(arg) /\ WordCount(arg) > 2000) => ret = 10
        /\ (WordCount(arg) <= 500 /\ NoBonusMarker(arg)) => ret = 0

\* C10 witness: the score of a text with every bonus condition and more than
\* 2000 words was returned.
C10_Witness ==
    /\ pc = "return_calculate_content_depth"
    /\ AllBonusConditions(arg)
    /\ WordCount(arg) > 2000
    /\ ret = 10

=============================================================================
